---- MODULE Spec2Model ----
(***************************************************************************)
(* A model of BaseCodeExecutor (src/src/base_code_executor/main.py): one   *)
(* executor session, from construction over scope entry and the iteration  *)
(* of run() to scope exit.  The external world the executor drives through *)
(* subprocesses (the container runtime, the container and the cgroup       *)
(* directories inside it) is part of the state; every subprocess the code  *)
(* starts is recorded, in order, in the history variable trace.            *)
(***************************************************************************)
EXTENDS Integers, Sequences, FiniteSets, TLC

\* Largest number of entries of <src>/input the model explores.
MaxTests == 2
\* Largest number of calls of run() inside one scope.
MaxRunCalls == 2

\* Exit statuses of the test program: success, killed by SIGKILL.
ExitCodes == {0, 137}
\* Exit statuses of the other external commands.
CmdCodes == {0, 1}

VARIABLES
    cfg,      \* the constructor arguments and the environment of the session
    pc,       \* position of the session
    self,     \* the mutable fields of the executor object
    docker,   \* the container of this session and the cgroups inside it
    trace,    \* history: the external commands executed, and the yields
    gen,      \* the generator object returned by the latest call of run()
    yielded,  \* the results the latest generator has yielded
    calls,    \* number of calls of run()
    exc,      \* the exception that left the latest handler
    obs       \* the observation of one test handed to the verdict resolver

vars == <<cfg, pc, self, docker, trace, gen, yielded, calls, exc, obs>>

\* The Constraints the model explores (memory_limit and memory_swap_limit
\* in MB, cpu_quota and cpu_period in microseconds).
ConstraintSets ==
    {[time_limit |-> 2, memory_limit |-> ml, memory_swap_limit |-> sw,
      cpu_quota |-> 500000, cpu_period |-> 1000000] :
        <<ml, sw>> \in {<<0, 0>>, <<10, 5>>}}

\* Python's None for container_id.
None == "None"

\* uuid.uuid4().hex: the n-th call gives a token no other call gives.
Uuid4Hex(n) == <<"uuid", n>>
\* The default of the parameter container_name: a default is evaluated
\* once, when the def statement of __init__ is executed, and every call
\* that omits the argument gets that one value.
DefaultContainerName == Uuid4Hex(1)
\* A container_name the caller passes.
ExplicitContainerName == <<"name", 1>>
\* The name of the container of another session of the same process that
\* was constructed without container_name.
PeerContainerName == DefaultContainerName

\* An f"{n}m" size given to docker run, in bytes.
DockerSize(n) == n * 1024 * 1024
\* The identifier f"test{test_case}" and the identifier "parent".
TestId(test_case) == <<"test", test_case>>
ParentId == <<"parent", 0>>
NoId == <<"", 0>>

(***************************************************************************)
(* The helpers work on a record m = [self, docker, trace, exc, ret]: the   *)
(* object, the world, the history, the exception raised so far ("none"     *)
(* when there is none) and the value the last call returned.               *)
(***************************************************************************)

\* subprocess.Popen / subprocess.run of one external command.
Cmd(m, op, id, rc) ==
    [m EXCEPT !.trace = Append(@, [op |-> op, id |-> id, rc |-> rc])]

\* raise ValueError(...)
Raise(m) == [m EXCEPT !.exc = "ValueError"]

\* docker exec <container_name> reaches whatever running container has
\* that name: the one this session started ("running") or one another
\* session started under the same name ("foreign").
ContainerUp(m) == m.docker.container \in {"running", "foreign"}

\* The exit status docker exec reports: nonzero when there is no running
\* container of that name, the status of the command otherwise.
ExecStatus(m, rc) == IF ContainerUp(m) THEN rc ELSE 1

\* _check_docker_daemon as it would be if a failed probe were only logged.
check_docker_daemon_not_raising(m, rc) ==
    IF cfg.dry_run THEN m ELSE Cmd(m, "docker_info", NoId, rc)

\* _check_docker_daemon as it would be without the dry-run return.
check_docker_daemon_no_dry_run(m, rc) ==
    LET m1 == Cmd(m, "docker_info", NoId, rc)
    IN  IF rc = 0 THEN m1 ELSE Raise(m1)

check_docker_daemon(m, rc) ==
    IF cfg.dry_run THEN m
    ELSE LET m1 == Cmd(m, "docker_info", NoId, rc)
         IN  IF rc = 0 THEN m1 ELSE Raise(m1)

\* _create_container as it would be without the 100 MB of headroom.
create_container_no_headroom(m, rc) ==
    IF cfg.dry_run THEN m
    ELSE LET status == IF ContainerUp(m) THEN 1 ELSE rc
             m1 == Cmd(m, "docker_run", NoId, status)
         IN  IF status = 0
             THEN [m1 EXCEPT
                     !.self.container_id = "id",
                     !.docker.container = "running",
                     !.docker.memory =
                         DockerSize(cfg.constraints.memory_limit),
                     !.docker.memory_swap =
                         DockerSize(cfg.constraints.memory_limit
                                    + cfg.constraints.memory_swap_limit)]
             ELSE Raise(m1)

\* docker run --name fails when a container of that name exists.
create_container(m, rc) ==
    IF cfg.dry_run THEN m
    ELSE LET status == IF ContainerUp(m) THEN 1 ELSE rc
             m1 == Cmd(m, "docker_run", NoId, status)
         IN  IF status = 0
             THEN [m1 EXCEPT
                     !.self.container_id = "id",
                     !.docker.container = "running",
                     !.docker.memory =
                         DockerSize(cfg.constraints.memory_limit + 100),
                     !.docker.memory_swap =
                         DockerSize(cfg.constraints.memory_limit
                                    + cfg.constraints.memory_swap_limit + 100)]
             ELSE Raise(m1)

\* docker stop of a container started with --rm removes the container and
\* with it the cgroup directories made inside it.  The exit status of
\* docker stop is not looked at.
\* _cleanup_container as it would be without the test of container_id.
cleanup_container_unguarded(m, rc) ==
    IF cfg.dry_run THEN m
    ELSE LET status == IF m.docker.container = "running" THEN rc ELSE 1
             m1 == Cmd(m, "docker_stop", NoId, status)
         IN  IF status = 0
             THEN [m1 EXCEPT !.docker.container = "removed",
                             !.docker.cgroups = {},
                             !.docker.limits = {}]
             ELSE m1

\* _cleanup_container as it would be with subprocess.run(..., check=True).
cleanup_container_checked(m, rc) ==
    IF cfg.dry_run THEN m
    ELSE IF m.self.container_id # None
         THEN LET status == IF m.docker.container = "running" THEN rc ELSE 1
                  m1 == Cmd(m, "docker_stop", NoId, status)
              IN  IF status = 0
                  THEN [m1 EXCEPT !.docker.container = "removed",
                                  !.docker.cgroups = {},
                                  !.docker.limits = {}]
                  ELSE Raise(m1)
         ELSE m

\* docker stop <container_id> names the container this session started;
\* it fails when that container is gone.
cleanup_container(m, rc) ==
    IF cfg.dry_run THEN m
    ELSE IF m.self.container_id # None
         THEN LET status == IF m.docker.container = "running" THEN rc ELSE 1
                  m1 == Cmd(m, "docker_stop", NoId, status)
              IN  IF status = 0
                  THEN [m1 EXCEPT !.docker.container = "removed",
                                  !.docker.cgroups = {},
                                  !.docker.limits = {}]
                  ELSE m1
         ELSE m

\* _create_cgroup as it would be with mkdir -p, which accepts a directory
\* that exists.
create_cgroup_mkdir_p(m, identifier, rc) ==
    IF cfg.dry_run THEN m
    ELSE LET status == ExecStatus(m, rc)
             m1 == Cmd(m, "mkdir", identifier, status)
         IN  IF status = 0
             THEN [m1 EXCEPT !.docker.cgroups = @ \cup {identifier}]
             ELSE Raise(m1)

\* mkdir /sys/fs/cgroup/<identifier> fails when the directory exists.
create_cgroup(m, identifier, rc) ==
    IF cfg.dry_run THEN m
    ELSE LET status == IF identifier \in m.docker.cgroups
                       THEN 1 ELSE ExecStatus(m, rc)
             m1 == Cmd(m, "mkdir", identifier, status)
         IN  IF status = 0
             THEN [m1 EXCEPT !.docker.cgroups = @ \cup {identifier}]
             ELSE Raise(m1)

\* "cgroup2" in stdout of "mount | grep cgroup": the container is reached
\* and its mount table has a cgroup2 entry.
Cgroup2InStdout(m) == ContainerUp(m) /\ m.docker.cgroup2

\* _prepare_cgroup as it would be without the test for "cgroup2".
prepare_cgroup_unchecked(m, rc_mkdir, rc_prepare, rc_read) ==
    IF cfg.dry_run THEN m
    ELSE LET m1 == Cmd(m, "mount", NoId, ExecStatus(m, 0))
             m2 == create_cgroup(m1, ParentId, rc_mkdir)
         IN  IF m2.exc # "none" THEN m2
             ELSE LET m3 == Cmd(m2, "subtree_control_write", NoId, rc_prepare)
                  IN  IF rc_prepare = 0
                      THEN Cmd(m3, "subtree_control_read", NoId, rc_read)
                      ELSE Raise(m3)

\* The cat of cgroup.subtree_control that follows a successful write: it
\* exits 0 with an output that lists cpu and memory, or it does not (rc_read
\* is nonzero then); the output is logged and not looked at.
prepare_cgroup(m, rc_mkdir, rc_prepare, rc_read) ==
    IF cfg.dry_run THEN m
    ELSE LET m1 == Cmd(m, "mount", NoId, ExecStatus(m, 0))
         IN  IF ~Cgroup2InStdout(m) THEN Raise(m1)
             ELSE LET m2 == create_cgroup(m1, ParentId, rc_mkdir)
                  IN  IF m2.exc # "none" THEN m2
                      ELSE LET m3 == Cmd(m2, "subtree_control_write", NoId,
                                         rc_prepare)
                           IN  IF rc_prepare = 0
                               THEN Cmd(m3, "subtree_control_read", NoId,
                                        rc_read)
                               ELSE Raise(m3)

\* One shell command "echo <value> > /sys/fs/cgroup/<identifier>/<file>".
Echo(identifier, file, value) ==
    [identifier |-> identifier, file |-> file, value |-> value]
\* The argument "&&" of the command list.
AndAnd == [identifier |-> NoId, file |-> "&&", value |-> <<>>]

\* The arguments that follow "bash", "-c" in the command list of _set_limits.
set_limits_args(identifier) ==
    << Echo(identifier, "memory.max",
            <<cfg.constraints.memory_limit * 1024 * 1024>>),
       AndAnd,
       Echo(identifier, "memory.swap.max",
            <<cfg.constraints.memory_swap_limit>>),
       AndAnd,
       Echo(identifier, "cpu.max",
            <<cfg.constraints.cpu_quota, cfg.constraints.cpu_period>>) >>

\* bash -c <command_string> [<name> [<argument> ...]]: the first argument
\* after -c is the command string that is executed; the arguments after it
\* only set $0, $1, ... of that command.
BashC(args) == IF args = <<>> THEN {} ELSE {args[1]} \ {AndAnd}

\* _set_limits as it would be if a nonzero exit were only logged.
set_limits_not_raising(m, identifier, rc) ==
    IF cfg.dry_run THEN m
    ELSE LET status == IF identifier \in m.docker.cgroups
                       THEN ExecStatus(m, rc) ELSE 1
             m1 == Cmd(m, "set_limits", identifier, status)
         IN  IF status = 0
             THEN [m1 EXCEPT !.docker.limits =
                      {w \in @ : ~\E n \in BashC(set_limits_args(identifier)) :
                                     n.identifier = w.identifier
                                     /\ n.file = w.file}
                      \cup BashC(set_limits_args(identifier))]
             ELSE m1

set_limits(m, identifier, rc) ==
    IF cfg.dry_run THEN m
    ELSE LET status == IF identifier \in m.docker.cgroups
                       THEN ExecStatus(m, rc) ELSE 1
             m1 == Cmd(m, "set_limits", identifier, status)
         IN  IF status = 0
             THEN [m1 EXCEPT !.docker.limits =
                      {w \in @ : ~\E n \in BashC(set_limits_args(identifier)) :
                                     n.identifier = w.identifier
                                     /\ n.file = w.file}
                      \cup BashC(set_limits_args(identifier))]
             ELSE Raise(m1)

\* _compile as it would be if a nonzero exit of the compiler raised.
compile_raising(m, rc) ==
    IF cfg.disable_compile THEN Raise(m)
    ELSE IF cfg.dry_run THEN m
    ELSE LET status == ExecStatus(m, rc)
             m1 == Cmd(m, "compile", NoId, status)
         IN  IF status = 0 THEN [m1 EXCEPT !.self.is_compiled = TRUE]
             ELSE Raise(m1)

compile(m, rc) ==
    IF cfg.disable_compile THEN Raise(m)
    ELSE IF cfg.dry_run THEN m
    ELSE LET status == ExecStatus(m, rc)
             m1 == Cmd(m, "compile", NoId, status)
         IN  IF status = 0 THEN [m1 EXCEPT !.self.is_compiled = TRUE]
             ELSE m1

\* The tuple (stdout, stderr, exit_code) that _run returns; test_case is
\* kept with it to tell the results apart.
Result(test_case, exit_code) ==
    [test_case |-> test_case, exit_code |-> exit_code]

\* The timeout argument of run() and _run(), an int | None: <<>> is None
\* and <<n>> is the integer n.
NoTimeout == <<>>
TimeoutArgs == {NoTimeout, <<0>>, <<3>>}

\* "if not timeout: timeout = time_limit * 5": None and 0 are both falsy.
Timeout(timeout) ==
    IF timeout = NoTimeout \/ timeout[1] = 0
    THEN cfg.constraints.time_limit * 5
    ELSE timeout[1]

\* One program started by the shell of a run command: the test it is for,
\* the cgroup the shell had joined and the duration given to timeout(1).
Launched(test_case, identifier, T) ==
    [id |-> TestId(test_case), cgroup |-> identifier, timeout |-> T]

\* The shell of the run command with ";" in place of "&&".
run_shell_semicolon(m, test_case, T, rc_procs, rc_run) ==
    LET id == TestId(test_case)
        wrote == id \in m.docker.cgroups /\ rc_procs = 0
        status == IF ~ContainerUp(m) THEN 1 ELSE rc_run
        m1 == Cmd(m, "run", id, status)
    IN  IF ContainerUp(m)
        THEN [m1 EXCEPT !.docker.launched =
                 @ \cup {Launched(test_case,
                                  IF wrote THEN id ELSE ParentId, T)}]
        ELSE m1

\* docker exec ... bash -c "echo $$ > /sys/fs/cgroup/test<i>/cgroup.procs
\* && su - <user> -c 'timeout <T> <run_command> < <input>'": the program
\* is started only when the write of the PID succeeded, and the exit
\* status is that of the write when it failed, that of the program
\* otherwise.
run_shell(m, test_case, T, rc_procs, rc_run) ==
    LET id == TestId(test_case)
        wrote == /\ ContainerUp(m) /\ id \in m.docker.cgroups
                 /\ rc_procs = 0
        status == IF wrote THEN rc_run ELSE 1
        m1 == Cmd(m, "run", id, status)
    IN  IF wrote
        THEN [m1 EXCEPT !.docker.launched =
                 @ \cup {Launched(test_case, id, T)}]
        ELSE m1

\* _run as it would be if a failing test program raised (check=True).
run_test_raising(m, test_case, timeout, rc_mkdir, rc_limits, rc_procs, rc_run) ==
    LET m1 == create_cgroup(m, TestId(test_case), rc_mkdir)
    IN  IF m1.exc # "none" THEN m1
        ELSE LET m2 == set_limits(m1, TestId(test_case), rc_limits)
             IN  IF m2.exc # "none" THEN m2
                 ELSE IF cfg.dry_run
                      THEN [m2 EXCEPT !.ret = Result(test_case, 0)]
                      ELSE LET m3 == run_shell(m2, test_case, Timeout(timeout),
                                               rc_procs, rc_run)
                               status == m3.trace[Len(m3.trace)].rc
                           IN  IF status # 0 THEN Raise(m3)
                               ELSE [m3 EXCEPT !.ret = Result(test_case, status)]

\* _run as it would be if it made the child cgroup of the next test ahead
\* of time.
run_test_create_ahead(m, test_case, timeout, rc_mkdir, rc_limits, rc_procs, rc_run) ==
    LET m0 == create_cgroup(m, TestId(test_case), rc_mkdir)
        m1 == IF m0.exc # "none" THEN m0
              ELSE create_cgroup(m0, TestId(test_case + 1), rc_mkdir)
    IN  IF m1.exc # "none" THEN m1
        ELSE LET m2 == set_limits(m1, TestId(test_case), rc_limits)
             IN  IF m2.exc # "none" THEN m2
                 ELSE IF cfg.dry_run
                      THEN [m2 EXCEPT !.ret = Result(test_case, 0)]
                      ELSE LET id == TestId(test_case)
                               m3 == run_shell(m2, test_case, Timeout(timeout),
                                               rc_procs, rc_run)
                               status == m3.trace[Len(m3.trace)].rc
                               m4 == Cmd(m3, "memory_peak", id, 0)
                               m5 == Cmd(m4, "memory_events", id, 0)
                               m6 == Cmd(m5, "cpu_stat", id, 0)
                           IN  [m6 EXCEPT !.ret = Result(test_case, status)]

\* BaseCodeExecutor._run
run_test(m, test_case, timeout, rc_mkdir, rc_limits, rc_procs, rc_run) ==
    LET m1 == create_cgroup(m, TestId(test_case), rc_mkdir)
    IN  IF m1.exc # "none" THEN m1
        ELSE LET m2 == set_limits(m1, TestId(test_case), rc_limits)
             IN  IF m2.exc # "none" THEN m2
                 ELSE IF cfg.dry_run
                      THEN [m2 EXCEPT !.ret = Result(test_case, 0)]
                      ELSE LET id == TestId(test_case)
                               m3 == run_shell(m2, test_case, Timeout(timeout),
                                               rc_procs, rc_run)
                               status == m3.trace[Len(m3.trace)].rc
                               m4 == Cmd(m3, "memory_peak", id, 0)
                               m5 == Cmd(m4, "memory_events", id, 0)
                               m6 == Cmd(m5, "cpu_stat", id, 0)
                           IN  [m6 EXCEPT !.ret = Result(test_case, status)]

(***************************************************************************)
(* The verdict resolver.  The repository declares the verdicts             *)
(* (arbiterx/verdicts.py) and the TestResult that carries one              *)
(* (arbiterx/types.py); the resolver itself follows the classification     *)
(* table of the specification, section 4.7.                                *)
(***************************************************************************)

\* The members of the enum Verdict.
Verdict == {"AC", "WA", "TLE", "MLE", "RE", "OLE", "CE", "ILE", "JE"}

\* The limits the observations are judged against: time_limit in seconds,
\* memory_limit in MB, and the output limit in bytes (its default for a
\* small expected output, 10 MB).
VerdictTimeLimit == 2
VerdictMemoryLimit == 10
OutputLimit == 10485760

\* The observations of one test: exit code of the run command, counters of
\* memory.events, memory.peak in bytes, usage_usec of cpu.stat, wall time
\* in milliseconds, size of the actual output in bytes, and whether the
\* comparator returned "match".  verdict is "none" until it is resolved.
Observations ==
    [exit_code : {0, 1, 124, 137, 139},
     oom : {0, 1}, oom_kill : {0, 1}, oom_group_kill : {0, 1},
     memory_peak : {1048576, VerdictMemoryLimit * 1048576,
                    VerdictMemoryLimit * 1048576 + 4096},
     usage_usec : {100000, 200000, VerdictTimeLimit * 1000000},
     wall_ms : {1000, VerdictTimeLimit * 1000},
     output_size : {6, OutputLimit + 1},
     match : BOOLEAN,
     verdict : {"none"}]

\* No test has been observed.
NoObservation ==
    [exit_code |-> 0, oom |-> 0, oom_kill |-> 0, oom_group_kill |-> 0,
     memory_peak |-> 0, usage_usec |-> 0, wall_ms |-> 0, output_size |-> 0,
     match |-> FALSE, verdict |-> "none"]

\* Rule 1: an OOM event was counted or memory.peak reached the limit.
RuleMLE(o) ==
    \/ o.oom > 0 \/ o.oom_kill > 0 \/ o.oom_group_kill > 0
    \/ o.memory_peak >= VerdictMemoryLimit * 1048576
\* Rule 2: wall time >= time_limit and usage_usec / 1e6 < time_limit x 0.1.
RuleILE(o) ==
    /\ o.wall_ms >= VerdictTimeLimit * 1000
    /\ o.usage_usec * 10 < VerdictTimeLimit * 1000000
\* Rule 3: usage_usec / 1e6 >= time_limit, or timeout(1) fired (exit 124),
\* or the program was killed by SIGKILL (exit 137) after the limit.
RuleTLE(o) ==
    \/ o.usage_usec >= VerdictTimeLimit * 1000000
    \/ o.exit_code = 124
    \/ o.exit_code = 137 /\ o.wall_ms >= VerdictTimeLimit * 1000
\* Rule 4: the actual output is larger than the output limit.
RuleOLE(o) == o.output_size > OutputLimit
\* Rule 5: nonzero exit code.
RuleRE(o) == o.exit_code # 0
\* Rules 6 and 7: the comparator's answer.
RuleWA(o) == ~o.match

\* The resolver as it would be if the exit code were looked at first.
classify_exit_code_first(o) ==
    IF RuleRE(o) THEN "RE"
    ELSE IF RuleMLE(o) THEN "MLE"
    ELSE IF RuleILE(o) THEN "ILE"
    ELSE IF RuleTLE(o) THEN "TLE"
    ELSE IF RuleOLE(o) THEN "OLE"
    ELSE IF RuleWA(o) THEN "WA"
    ELSE "AC"

\* The first matching rule wins.
classify(o) ==
    IF RuleMLE(o) THEN "MLE"
    ELSE IF RuleILE(o) THEN "ILE"
    ELSE IF RuleTLE(o) THEN "TLE"
    ELSE IF RuleOLE(o) THEN "OLE"
    ELSE IF RuleRE(o) THEN "RE"
    ELSE IF RuleWA(o) THEN "WA"
    ELSE "AC"

\* The sessions the model explores: the constructor arguments, the number
\* of entries of <src>/input, whether the mount table of the image shows
\* cgroup2, and whether a peer session constructed without container_name
\* has its container running.  A session is given a container_name of its
\* own, or it is constructed without one next to such a peer; without the
\* peer the default name behaves as a given one.
Configurations ==
    {c \in [dry_run : BOOLEAN, lazy_container : BOOLEAN,
            disable_compile : BOOLEAN, early_exit : BOOLEAN,
            ntests : 0..MaxTests,
            constraints : ConstraintSets,
            container_name : {DefaultContainerName, ExplicitContainerName},
            peer : BOOLEAN, cgroup2 : BOOLEAN] :
        c.peer <=> c.container_name = PeerContainerName}

\* The record the helpers work on, taken from the state.
Machine == [self |-> self, docker |-> docker, trace |-> trace,
            exc |-> "none", ret |-> None]

Init ==
    /\ cfg \in Configurations
    /\ obs = NoObservation
    /\ pc = "new"
    /\ self = [container_id |-> None, is_compiled |-> FALSE]
    /\ docker = [container |->
                     IF cfg.peer /\ cfg.container_name = PeerContainerName
                     THEN "foreign" ELSE "none",
                 cgroup2 |-> cfg.cgroup2,
                 cgroups |-> {}, limits |-> {}, launched |-> {},
                 memory |-> 0, memory_swap |-> 0]
    /\ trace = <<>>
    /\ gen = [state |-> "none", i |-> 0, timeout |-> NoTimeout]
    /\ yielded = <<>>
    /\ calls = 0
    /\ exc = "none"

\* BaseCodeExecutor.__init__
init ==
    /\ pc = "new"
    /\ \E rc_info \in CmdCodes, rc_run \in CmdCodes :
         LET m1 == check_docker_daemon(Machine, rc_info)
             m2 == IF m1.exc = "none" /\ ~cfg.lazy_container
                   THEN create_container(m1, rc_run) ELSE m1
         IN  /\ self' = m2.self
             /\ docker' = m2.docker
             /\ trace' = m2.trace
             /\ exc' = m2.exc
             /\ pc' = IF m2.exc = "none" THEN "constructed" ELSE "init_raised"
    /\ UNCHANGED <<cfg, obs, gen, yielded, calls>>

\* __enter__ as it would be with cgroup preparation ahead of the compile.
enter_prepare_first ==
    /\ pc = "constructed"
    /\ \E rc_compile \in CmdCodes, rc_mkdir \in CmdCodes,
          rc_prepare \in CmdCodes, rc_read \in CmdCodes :
         LET m1 == prepare_cgroup(Machine, rc_mkdir, rc_prepare, rc_read)
             m2 == IF m1.exc = "none" /\ ~cfg.disable_compile
                   THEN compile(m1, rc_compile) ELSE m1
         IN  /\ self' = m2.self
             /\ docker' = m2.docker
             /\ trace' = m2.trace
             /\ exc' = m2.exc
             /\ pc' = IF m2.exc = "none" THEN "body" ELSE "enter_raised"
    /\ UNCHANGED <<cfg, obs, gen, yielded, calls>>

\* __enter__ as it would be without the test of disable_compile.
enter_always_compile ==
    /\ pc = "constructed"
    /\ \E rc_compile \in CmdCodes, rc_mkdir \in CmdCodes,
          rc_prepare \in CmdCodes, rc_read \in CmdCodes :
         LET m1 == compile(Machine, rc_compile)
             m2 == IF m1.exc # "none" THEN m1
                   ELSE prepare_cgroup(m1, rc_mkdir, rc_prepare, rc_read)
         IN  /\ self' = m2.self
             /\ docker' = m2.docker
             /\ trace' = m2.trace
             /\ exc' = m2.exc
             /\ pc' = IF m2.exc = "none" THEN "body" ELSE "enter_raised"
    /\ UNCHANGED <<cfg, obs, gen, yielded, calls>>

\* BaseCodeExecutor.__enter__; when it raises the with statement does not
\* call __exit__.
enter ==
    /\ pc = "constructed"
    /\ \E rc_compile \in CmdCodes, rc_mkdir \in CmdCodes,
          rc_prepare \in CmdCodes, rc_read \in CmdCodes :
         LET m1 == IF ~cfg.disable_compile
                   THEN compile(Machine, rc_compile) ELSE Machine
             m2 == IF m1.exc # "none" THEN m1
                   ELSE prepare_cgroup(m1, rc_mkdir, rc_prepare, rc_read)
         IN  /\ self' = m2.self
             /\ docker' = m2.docker
             /\ trace' = m2.trace
             /\ exc' = m2.exc
             /\ pc' = IF m2.exc = "none" THEN "body" ELSE "enter_raised"
    /\ UNCHANGED <<cfg, obs, gen, yielded, calls>>

\* range(1, len(tests)) in place of range(1, len(tests) + 1).
range_stop_short == cfg.ntests

\* The stop of range(1, len(tests) + 1), tests being the listing of
\* <src>/input.
range_stop == cfg.ntests + 1

\* BaseCodeExecutor.run: calling a generator function makes a generator
\* and runs none of its body.
run ==
    /\ pc = "body"
    /\ calls < MaxRunCalls
    /\ \E timeout \in TimeoutArgs :
         gen' = [state |-> "created", i |-> 1, timeout |-> timeout]
    /\ yielded' = <<>>
    /\ calls' = calls + 1
    /\ UNCHANGED <<cfg, obs, pc, self, docker, trace, exc>>

\* next() on the generator: the body of run up to its next yield.  An
\* exception raised by _run leaves the generator and the with body.
next ==
    /\ pc = "body"
    /\ gen.state \in {"created", "suspended"}
    /\ IF gen.i >= range_stop
       THEN /\ gen' = [gen EXCEPT !.state = "exhausted"]
            /\ UNCHANGED <<cfg, obs, pc, self, docker, trace, yielded, calls,
                           exc>>
       ELSE \E rc_mkdir \in CmdCodes, rc_limits \in CmdCodes,
               rc_procs \in CmdCodes, rc_run \in ExitCodes :
              LET m1 == run_test(Machine, gen.i, gen.timeout, rc_mkdir,
                                 rc_limits, rc_procs, rc_run)
              IN  /\ self' = m1.self
                  /\ docker' = m1.docker
                  /\ exc' = m1.exc
                  /\ IF m1.exc = "none"
                     THEN /\ trace' = Append(m1.trace,
                                [op |-> "yield", id |-> TestId(gen.i), rc |-> 0])
                          /\ yielded' = Append(yielded, m1.ret)
                          /\ gen' = [gen EXCEPT !.state = "suspended",
                                                 !.i = gen.i + 1]
                          /\ pc' = pc
                     ELSE /\ trace' = m1.trace
                          /\ yielded' = yielded
                          /\ gen' = [gen EXCEPT !.state = "raised"]
                          /\ pc' = "body_raised"
                  /\ UNCHANGED <<cfg, obs, calls>>

\* BaseCodeExecutor.__exit__: the with body has ended, by running to its
\* end, by leaving early or by an exception.
exit ==
    /\ pc \in {"body", "body_raised"}
    /\ \E rc_stop \in CmdCodes :
         LET m1 == cleanup_container(Machine, rc_stop)
         IN  /\ self' = m1.self
             /\ docker' = m1.docker
             /\ trace' = m1.trace
             /\ exc' = IF m1.exc # "none" THEN m1.exc ELSE exc
    /\ pc' = "done"
    /\ UNCHANGED <<cfg, obs, gen, yielded, calls>>

\* The teardown run a second time on the same object (__exit__ or
\* _cleanup_container called again after the scope was left).
exit_again ==
    /\ pc = "done"
    /\ \E rc_stop \in CmdCodes :
         LET m1 == cleanup_container(Machine, rc_stop)
         IN  /\ self' = m1.self
             /\ docker' = m1.docker
             /\ trace' = m1.trace
             /\ exc' = IF m1.exc # "none" THEN m1.exc ELSE exc
    /\ pc' = "done_twice"
    /\ UNCHANGED <<cfg, obs, gen, yielded, calls>>

Next == init \/ enter \/ run \/ next \/ exit \/ exit_again

Spec == Init /\ [][Next]_vars

\* The verdict resolver applied to one observation, outside any session.
InitVerdict ==
    /\ obs \in Observations
    /\ cfg = CHOOSE c \in Configurations : c.dry_run /\ c.ntests = 0
    /\ pc = "new"
    /\ self = [container_id |-> None, is_compiled |-> FALSE]
    /\ docker = [container |-> "none", cgroup2 |-> cfg.cgroup2,
                 cgroups |-> {}, limits |-> {}, launched |-> {},
                 memory |-> 0, memory_swap |-> 0]
    /\ trace = <<>>
    /\ gen = [state |-> "none", i |-> 0, timeout |-> NoTimeout]
    /\ yielded = <<>>
    /\ calls = 0
    /\ exc = "none"

resolve ==
    /\ obs.verdict = "none"
    /\ obs' = [obs EXCEPT !.verdict = classify(obs)]
    /\ UNCHANGED <<cfg, pc, self, docker, trace, gen, yielded, calls, exc>>

NextVerdict == resolve

SpecVerdict == InitVerdict /\ [][NextVerdict]_vars

(***************************************************************************)
(* Reading the history.                                                    *)
(***************************************************************************)

\* The session is over: the scope was left, or construction or scope entry
\* raised (and then __exit__ is never called).
SessionEnded == pc \in {"done", "done_twice", "init_raised", "enter_raised"}

\* The positions of the history whose event satisfies P.
At(P(_)) == {k \in DOMAIN trace : P(trace[k])}

\* Every event satisfying P comes before every event satisfying Q.
Before(P(_), Q(_)) == \A a \in At(P), b \in At(Q) : a < b

IsCreate(e) == e.op = "docker_run"
IsStop(e) == e.op = "docker_stop"
IsCompile(e) == e.op = "compile"
IsPrepare(e) ==
    \/ e.op \in {"mount", "subtree_control_write", "subtree_control_read"}
    \/ e.op = "mkdir" /\ e.id = ParentId
IsLaunch(e) == e.op = "run"
IsTestStep(e) ==
    /\ e.op \in {"mkdir", "set_limits", "run", "memory_peak",
                 "memory_events", "cpu_stat", "rmdir", "yield"}
    /\ e.id # ParentId
\* A command that executes inside the container (docker exec).
IsExec(e) == e.op \notin {"docker_info", "docker_run", "docker_stop", "yield"}

CompileFailed == \E k \in DOMAIN trace : IsCompile(trace[k]) /\ trace[k].rc # 0
ContainerCreated == \E k \in DOMAIN trace : IsCreate(trace[k]) /\ trace[k].rc = 0

\* The result carries the verdict v.  The tuple yielded by run has the
\* fields stdout, stderr and exit_code only.
HasVerdict(r, v) == "verdict" \in DOMAIN r /\ r.verdict = v

C2_TestStepOrder ==
    ~cfg.dry_run =>
      \A y \in DOMAIN trace : trace[y].op = "yield" =>
        \E c, l, r, s, d \in 1..y :
          /\ c < l /\ l < r /\ r < s /\ s < d /\ d < y
          /\ trace[c].op = "mkdir" /\ trace[l].op = "set_limits"
          /\ trace[r].op = "run" /\ trace[s].op = "cpu_stat"
          /\ trace[d].op = "rmdir"
          /\ \A k \in c..y : IsTestStep(trace[k]) /\ trace[k].id = trace[y].id

(***************************************************************************)
(* C3.  Once the compile command has exited nonzero, no test program is    *)
(* launched in the session.                                                *)
(***************************************************************************)
C3_NoLaunchAfterCompileFailure == CompileFailed => At(IsLaunch) = {}

(***************************************************************************)
(* C4.  When the compile command has exited nonzero, every yielded result  *)
(* has verdict CE, and with early_exit at most one result is yielded.      *)
(***************************************************************************)
C4_CompileFailureYieldsCE ==
    CompileFailed =>
      /\ \A k \in DOMAIN yielded : HasVerdict(yielded[k], "CE")
      /\ cfg.early_exit => Len(yielded) <= 1

(***************************************************************************)
(* C5.  With early_exit, only the last result of the sequence can be other *)
(* than AC: no result with a nonzero exit code (which no rule classifies   *)
(* as AC) is followed by another result.                                   *)
(***************************************************************************)
C5_EarlyExitStopsAtFirstFailure ==
    cfg.early_exit =>
      \A k \in DOMAIN yielded : k < Len(yielded) => yielded[k].exit_code = 0

(***************************************************************************)
(* C6.  When the session has ended and a container was created for it, a   *)
(* container stop has been issued.                                         *)
(***************************************************************************)
C6_CreatedContainerIsStopped ==
    (SessionEnded /\ ContainerCreated) => At(IsStop) # {}

(***************************************************************************)
(* C7.  With lazy_container, construction creates no container, and every  *)
(* command executed inside the container comes after the creation of the   *)
(* container.                                                              *)
(***************************************************************************)
C7_LazyContainerCreatedBeforeUse ==
    cfg.lazy_container =>
      /\ pc = "constructed" => At(IsCreate) = {}
      /\ \A k \in At(IsExec) :
           \E c \in At(IsCreate) : c < k /\ trace[c].rc = 0

(***************************************************************************)
(* C8.  Each child cgroup test<i> is created at most once and only for a   *)
(* test that was started, and when the session has ended none of them      *)
(* exists.                                                                 *)
(***************************************************************************)
C8_ChildCgroupsCreatedOnceAndGone ==
    \A i \in 1..(MaxTests + 1) :
      LET made == {k \in DOMAIN trace :
                     /\ trace[k].op = "mkdir" /\ trace[k].id = TestId(i)
                     /\ trace[k].rc = 0}
      IN  /\ Cardinality(made) <= 1
          /\ made # {} => i <= cfg.ntests
          /\ SessionEnded => TestId(i) \notin docker.cgroups

(***************************************************************************)
(* C9.  A step that launches the test program never raises, whatever the   *)
(* exit code of the program: it yields a result carrying that exit code    *)
(* and leaves the generator suspended at the next test, inside the scope.  *)
(***************************************************************************)
C9_ProgramExitNeverRaises ==
    [][\A k \in DOMAIN trace' :
          (k > Len(trace) /\ trace'[k].op = "run") =>
             /\ exc' = "none"
             /\ pc' = "body"
             /\ gen' = [gen EXCEPT !.state = "suspended", !.i = gen.i + 1]
             /\ yielded' = Append(yielded, Result(gen.i, trace'[k].rc))
             /\ trace'[k].id = TestId(gen.i)]_vars

\* A test program killed by a signal or by timeout(1) gave a result, and a
\* later test gave one after it.
C9_Witness ==
    \E k \in DOMAIN yielded :
       /\ yielded[k].exit_code \in {124, 137, 139}
       /\ k < Len(yielded)

(***************************************************************************)
(* C10.  A failure to create the child cgroup of a test or to set its      *)
(* limits makes no exception leave the iterator.                           *)
(***************************************************************************)
C10_PerTestFailureStaysInside ==
    /\ gen.state # "raised"
    /\ pc # "body_raised"

(***************************************************************************)
(* C11.  Whenever the set-limits command of a child cgroup has reported    *)
(* success and the cgroup exists, its memory.max holds memory_limit x      *)
(* 1048576, its memory.swap.max holds memory_swap_limit x 1048576 and its  *)
(* cpu.max holds "<cpu_quota> <cpu_period>".                               *)
(***************************************************************************)
C11_SetLimitsWritesAllThree ==
    \A k \in DOMAIN trace :
      (/\ trace[k].op = "set_limits" /\ trace[k].rc = 0
       /\ trace[k].id \in docker.cgroups) =>
        /\ Echo(trace[k].id, "memory.max",
                <<cfg.constraints.memory_limit * 1048576>>) \in docker.limits
        /\ Echo(trace[k].id, "memory.swap.max",
                <<cfg.constraints.memory_swap_limit * 1048576>>)
             \in docker.limits
        /\ Echo(trace[k].id, "cpu.max",
                <<cfg.constraints.cpu_quota, cfg.constraints.cpu_period>>)
             \in docker.limits

(***************************************************************************)
(* C12.  While the container this session created is running, its memory   *)
(* cap is memory_limit + 100 MB and its memory+swap cap is memory_limit +   *)
(* memory_swap_limit + 100 MB, and for every child cgroup the memory.max    *)
(* written is below the memory cap and the memory.max plus the              *)
(* memory.swap.max written is below the memory+swap cap.                    *)
(***************************************************************************)
WrittenBytes(identifier, file) ==
    IF \E w \in docker.limits : w.identifier = identifier /\ w.file = file
    THEN (CHOOSE w \in docker.limits :
             w.identifier = identifier /\ w.file = file).value[1]
    ELSE 0

C12_ContainerCapsAboveTestLimits ==
    docker.container = "running" =>
      /\ docker.memory = (cfg.constraints.memory_limit + 100) * 1048576
      /\ docker.memory_swap =
           (cfg.constraints.memory_limit
            + cfg.constraints.memory_swap_limit + 100) * 1048576
      /\ \A id \in docker.cgroups :
           /\ WrittenBytes(id, "memory.max") < docker.memory
           /\ WrittenBytes(id, "memory.max")
                + WrittenBytes(id, "memory.swap.max") < docker.memory_swap

\* The limits of a test were written in a container created with a
\* positive memory limit and a positive swap limit.
C12_Witness ==
    /\ docker.container = "running"
    /\ cfg.constraints.memory_limit > 0
    /\ cfg.constraints.memory_swap_limit > 0
    /\ \E w \in docker.limits : w.file = "memory.max" /\ w.value[1] > 0

(***************************************************************************)
(* C13.  The results a generator of run() has yielded are those of the     *)
(* tests 1, 2, ... in ascending order, one each, and a generator that ran  *)
(* to its end has yielded exactly N of them, N being the number of entries *)
(* of the input directory.                                                 *)
(***************************************************************************)
C13_OneResultPerTestInOrder ==
    /\ \A k \in DOMAIN yielded : yielded[k].test_case = k
    /\ Len(yielded) <= cfg.ntests
    /\ gen.state = "exhausted" => Len(yielded) = cfg.ntests

\* A generator ran to its end over two tests outside dry-run.
C13_Witness ==
    /\ gen.state = "exhausted" /\ cfg.ntests >= 2 /\ ~cfg.dry_run
    /\ Len(yielded) = cfg.ntests

(***************************************************************************)
(* C14.  In dry-run mode no external command is executed at any point of   *)
(* the session, no handler raises, every result has exit code 0 and a      *)
(* generator that ran to its end has yielded N results.                    *)
(***************************************************************************)
C14_DryRunExecutesNothing ==
    cfg.dry_run =>
      /\ \A k \in DOMAIN trace : trace[k].op = "yield"
      /\ exc = "none"
      /\ pc \notin {"init_raised", "enter_raised", "body_raised"}
      /\ \A k \in DOMAIN yielded : yielded[k].exit_code = 0
      /\ gen.state = "exhausted" => Len(yielded) = cfg.ntests

\* A dry-run session that yielded its N >= 1 placeholders and was left.
C14_Witness ==
    /\ cfg.dry_run /\ pc = "done" /\ gen.state = "exhausted"
    /\ cfg.ntests >= 1 /\ Len(yielded) = cfg.ntests

(***************************************************************************)
(* C15.  Outside dry-run a teardown issues one container stop when          *)
(* container_id is set, and when container_id is unset it issues no        *)
(* command, raises nothing and changes nothing.                            *)
(***************************************************************************)
C15_StopIffContainerId ==
    [][(pc' \in {"done", "done_twice"} /\ pc' # pc /\ ~cfg.dry_run) =>
         /\ self.container_id # None =>
              /\ Len(trace') = Len(trace) + 1
              /\ IsStop(trace'[Len(trace')])
              /\ SubSeq(trace', 1, Len(trace)) = trace
         /\ self.container_id = None =>
              /\ trace' = trace
              /\ exc' = exc
              /\ docker' = docker]_vars

\* A scope in which a test ran was left with container_id unset, and no
\* stop was issued.
C15_Witness ==
    /\ pc = "done" /\ ~cfg.dry_run /\ self.container_id = None
    /\ At(IsLaunch) # {} /\ At(IsStop) = {}

(***************************************************************************)
(* C16.  A second teardown, after one that stopped the container, issues   *)
(* no second container stop.                                               *)
(***************************************************************************)
C16_SecondTeardownIssuesNoStop ==
    (pc = "done_twice" /\ \E k \in At(IsStop) : trace[k].rc = 0) =>
        Cardinality(At(IsStop)) <= 1

\* C16 as amended: a second teardown, after one that stopped the container,
\* leaves the session and the container as they were and raises nothing;
\* the only thing it does is a second container stop, which fails.
C16_SecondTeardownChangesNothing ==
    [][(pc = "done" /\ pc' = "done_twice" /\ docker.container = "removed") =>
         /\ self' = self
         /\ docker' = docker
         /\ exc' = exc
         /\ gen' = gen
         /\ yielded' = yielded
         /\ trace' = Append(trace, [op |-> "docker_stop", id |-> NoId,
                                    rc |-> 1])]_vars

\* The teardown ran twice on a container the first one stopped.
C16_Witness ==
    /\ pc = "done_twice" /\ docker.container = "removed"
    /\ Cardinality(At(IsStop)) = 2

(***************************************************************************)
(* C17.  A session constructed without container_name, in a process in     *)
(* which another session constructed without container_name has its        *)
(* container running, has a name of its own: none of its commands is       *)
(* executed in the other session's container.                              *)
(***************************************************************************)
C17_SessionsUseOwnContainers ==
    (cfg.peer /\ cfg.container_name = DefaultContainerName) =>
        (docker.container = "foreign" => At(IsExec) = {})

(***************************************************************************)
(* C18.  is_compiled is true exactly when the compile command was executed *)
(* and exited 0, and a compile command that exited nonzero raised nothing: *)
(* scope entry went on to cgroup preparation.                              *)
(***************************************************************************)
C18_CompileFailureIsNoException ==
    /\ self.is_compiled <=>
         \E k \in DOMAIN trace : IsCompile(trace[k]) /\ trace[k].rc = 0
    /\ \A k \in DOMAIN trace :
         (IsCompile(trace[k]) /\ trace[k].rc # 0) =>
            /\ k < Len(trace)
            /\ trace[k + 1].op = "mount"

\* The compiler exited nonzero in a running container and the scope was
\* entered all the same.
C18_Witness ==
    /\ CompileFailed /\ pc = "body" /\ ~self.is_compiled
    /\ docker.container = "running"

(***************************************************************************)
(* C19.  With disable_compile the compile command is never executed,       *)
(* is_compiled stays false, scope entry reaches cgroup preparation, and a  *)
(* generator that ran to its end launched every test 1..N.                 *)
(***************************************************************************)
C19_DisableCompileSkipsCompile ==
    cfg.disable_compile =>
      /\ At(IsCompile) = {}
      /\ ~self.is_compiled
      /\ pc = "enter_raised" => \E k \in DOMAIN trace : trace[k].op = "mount"
      /\ (gen.state = "exhausted" /\ ~cfg.dry_run) =>
           \A i \in 1..cfg.ntests :
              \E k \in At(IsLaunch) : trace[k].id = TestId(i)

\* With disable_compile, two tests were launched and the generator ended.
C19_Witness ==
    /\ cfg.disable_compile /\ ~cfg.dry_run /\ gen.state = "exhausted"
    /\ cfg.ntests >= 2 /\ Cardinality(At(IsLaunch)) >= 2

(***************************************************************************)
(* C20.  When the liveness probe of the container runtime has exited       *)
(* nonzero, construction has raised, the probe is the only command of the  *)
(* session and no container was created; a container is created only       *)
(* after a probe that exited 0.                                            *)
(***************************************************************************)
C20_FailedProbeStopsConstruction ==
    /\ (\E k \in DOMAIN trace : trace[k].op = "docker_info" /\ trace[k].rc # 0)
         => /\ pc = "init_raised"
            /\ exc = "ValueError"
            /\ Len(trace) = 1
            /\ self.container_id = None
            /\ docker.container # "running"
    /\ \A k \in At(IsCreate) :
         k > 1 /\ trace[1].op = "docker_info" /\ trace[1].rc = 0

\* The probe failed in a session that would have created its container in
\* the constructor.
C20_Witness ==
    /\ pc = "init_raised" /\ ~cfg.lazy_container
    /\ Len(trace) = 1 /\ trace[1].op = "docker_info" /\ trace[1].rc # 0

(***************************************************************************)
(* C21.  Over the whole session, however often run() is called, the run    *)
(* command of each test is executed at most once and the child cgroup of   *)
(* each test is created at most once: a call of run() after the sequence   *)
(* was consumed launches nothing again and creates no cgroup again.        *)
(***************************************************************************)
C21_RunNotRestartable ==
    \A i \in 1..cfg.ntests :
      /\ Cardinality({k \in At(IsLaunch) : trace[k].id = TestId(i)}) <= 1
      /\ Cardinality({k \in DOMAIN trace :
                        /\ trace[k].op = "mkdir" /\ trace[k].id = TestId(i)
                        /\ trace[k].rc = 0}) <= 1

\* Both tests were run and yielded, run() was called again and the first
\* step of the new generator ended at the mkdir of test1, which failed.
C21_Witness ==
    /\ calls >= 2 /\ cfg.ntests = 2 /\ pc = "body_raised"
    /\ \A i \in 1..cfg.ntests :
         \E k \in DOMAIN trace : trace[k].op = "yield" /\ trace[k].id = TestId(i)
    /\ trace[Len(trace)] = [op |-> "mkdir", id |-> TestId(1), rc |-> 1]

(***************************************************************************)
(* C23.  The duration given to timeout(1) in the run command of a test is  *)
(* the timeout argument of run() whenever one was passed, 0 included, and  *)
(* 5 x time_limit only when none was passed.                               *)
(***************************************************************************)
C23_TimeoutIsTheArgument ==
    [][\A l \in docker'.launched \ docker.launched :
          l.timeout = IF gen.timeout # NoTimeout
                      THEN gen.timeout[1]
                      ELSE 5 * cfg.constraints.time_limit]_vars

(***************************************************************************)
(* C25.  A test program is launched only after a re-read of                *)
(* cgroup.subtree_control that showed cpu and memory.                      *)
(***************************************************************************)
C25_NoLaunchWithoutConfirmedControllers ==
    \A k \in At(IsLaunch) :
      \E r \in 1..(k - 1) :
         trace[r].op = "subtree_control_read" /\ trace[r].rc = 0

(***************************************************************************)
(* C26.  When the mount table read during cgroup preparation does not show *)
(* cgroup2, that read is the last command of the session: scope entry has  *)
(* raised, no cgroup was created, nothing was written and no test ran.     *)
(***************************************************************************)
C26_NoCgroup2StopsPreparation ==
    \A k \in DOMAIN trace :
      (trace[k].op = "mount" /\ ~(trace[k].rc = 0 /\ docker.cgroup2)) =>
         /\ k = Len(trace)
         /\ pc = "enter_raised" /\ exc = "ValueError"
         /\ \A j \in 1..k :
              trace[j].op \notin {"mkdir", "subtree_control_write",
                                  "set_limits", "run", "yield"}
         /\ docker.cgroups = {} /\ docker.limits = {} /\ docker.launched = {}

\* Preparation was stopped in a running container whose mount table has
\* no cgroup2 entry, in a session with tests to run.
C26_Witness ==
    /\ pc = "enter_raised" /\ ~docker.cgroup2 /\ cfg.ntests >= 1
    /\ docker.container = "running"
    /\ trace[Len(trace)] = [op |-> "mount", id |-> NoId, rc |-> 0]

(***************************************************************************)
(* C24.  Every test program that was started was started by a shell that   *)
(* had written its PID into cgroup.procs of the child cgroup of that same   *)
(* test, a cgroup that exists while the container runs; a run command      *)
(* whose write failed started no program.                                  *)
(***************************************************************************)
C24_ShellJoinsOwnCgroupBeforeLaunch ==
    \A l \in docker.launched :
      /\ l.cgroup = l.id
      /\ docker.container = "running" => l.cgroup \in docker.cgroups
      /\ \E k \in At(IsLaunch) : trace[k].id = l.id /\ trace[k].rc \in ExitCodes

\* The run command of one test started its program, and the run command
\* of another test, whose write of the PID failed, started none.
C24_Witness ==
    /\ docker.container = "running" /\ docker.launched # {}
    /\ \E k \in At(IsLaunch) :
         /\ trace[k].rc = 1
         /\ \A l \in docker.launched : l.id # trace[k].id

(***************************************************************************)
(* C27.  Child cgroups are made one at a time, on demand: when the run     *)
(* command of test i is executed no cgroup test<j> with j > i has been     *)
(* made, the cgroups made are those of tests 1..n for some n, and while    *)
(* the consumer is inside the scope they are exactly the cgroups of the    *)
(* tests whose results were yielded.                                       *)
(***************************************************************************)
MadeAt(k) ==
    /\ trace[k].op = "mkdir" /\ trace[k].rc = 0 /\ trace[k].id # ParentId

Made == {trace[k].id : k \in {j \in DOMAIN trace : MadeAt(j)}}

C27_ChildCgroupsMadeOnDemand ==
    /\ \A k \in At(IsLaunch) :
         \A j \in 1..k : MadeAt(j) => trace[j].id[2] <= trace[k].id[2]
    /\ Made = {TestId(j) : j \in 1..Cardinality(Made)}
    /\ (~cfg.dry_run /\ pc = "body") =>
         Made = {trace[k].id : k \in {j \in DOMAIN trace :
                                         trace[j].op = "yield"}}

\* The consumer took the result of test 1 of two and left the scope's
\* generator there: test1 was made and test2 was not.
C27_Witness ==
    /\ ~cfg.dry_run /\ pc = "body" /\ cfg.ntests = 2
    /\ gen.state = "suspended" /\ Len(yielded) = 1
    /\ Made = {TestId(1)}
    /\ docker.container = "running" /\ TestId(2) \notin docker.cgroups

(***************************************************************************)
(* C28.  The run command of a test is executed only right after the mkdir  *)
(* of its child cgroup and the set-limits command of that cgroup both      *)
(* exited 0; after a mkdir or a set-limits command of a test that exited   *)
(* nonzero no run command is executed.                                     *)
(***************************************************************************)
C28_LaunchOnlyAfterCgroupAndLimits ==
    /\ \A k \in At(IsLaunch) :
         /\ k > 2
         /\ trace[k - 2] = [op |-> "mkdir", id |-> trace[k].id, rc |-> 0]
         /\ trace[k - 1] = [op |-> "set_limits", id |-> trace[k].id, rc |-> 0]
    /\ \A k \in DOMAIN trace :
         (/\ trace[k].op \in {"mkdir", "set_limits"}
          /\ trace[k].id # ParentId /\ trace[k].rc # 0) =>
            /\ pc \notin {"body", "constructed", "new"}
            /\ \A j \in (k + 1)..Len(trace) : ~IsLaunch(trace[j])

\* Test 1 ran; the set-limits command of test 2 exited nonzero in the
\* running container and the step raised without a run command.
C28_Witness ==
    /\ pc = "body_raised" /\ docker.container = "running"
    /\ Cardinality(At(IsLaunch)) = 1
    /\ trace[Len(trace)] = [op |-> "set_limits", id |-> TestId(2), rc |-> 1]

====
